---- MODULE Spec2Model ----
(***************************************************************************)
(* Model of the express-jobly job accessor (models/job.js), its helper     *)
(* sqlForPartialUpdate (helpers/sql.js) and the part of the relational     *)
(* store the accessor's statements rely on.                                *)
(*                                                                         *)
(* JavaScript strings are sequences of one-character strings, so that      *)
(* formatting, parsing, lower-casing and LIKE matching are computed        *)
(* character by character.  JavaScript values are tagged records.          *)
(* JavaScript objects are sequences of [k, v] entries in insertion order   *)
(* (Object.keys order for non-integer keys).                               *)
(***************************************************************************)
EXTENDS Integers, Sequences, FiniteSets, TLC

VARIABLES jobs, companies, nextId, call

vars == <<jobs, companies, nextId, call>>

-----------------------------------------------------------------------------
(* Bounds of the model.                                                    *)

MaxId == 2

MaxKeys == 2

-----------------------------------------------------------------------------
(* Characters and strings.                                                 *)

UpperCase == <<"A","B","C","D","E","F","G","H","I","J","K","L","M",
               "N","O","P","Q","R","S","T","U","V","W","X","Y","Z">>

LowerCase == <<"a","b","c","d","e","f","g","h","i","j","k","l","m",
               "n","o","p","q","r","s","t","u","v","w","x","y","z">>

DigitChars == <<"0","1","2","3","4","5","6","7","8","9">>

IsDigit(c) == \E i \in 1..10 : DigitChars[i] = c

DigitVal(c) == (CHOOSE i \in 1..10 : DigitChars[i] = c) - 1

LowerChar(c) ==
  IF \E i \in 1..26 : UpperCase[i] = c
    THEN LowerCase[CHOOSE i \in 1..26 : UpperCase[i] = c]
    ELSE c

\* String.prototype.toLowerCase / SQL LOWER()
ToLowerCase(s) == [i \in 1..Len(s) |-> LowerChar(s[i])]

\* Position in a fixed character order used for ORDER BY (code-point order
\* of the characters the model uses): digits < upper case < "_" < lower case.
CharRank(c) ==
  IF IsDigit(c) THEN DigitVal(c)
  ELSE IF \E i \in 1..26 : UpperCase[i] = c
    THEN 10 + (CHOOSE i \in 1..26 : UpperCase[i] = c)
  ELSE IF c = "_" THEN 40
  ELSE IF \E i \in 1..26 : LowerCase[i] = c
    THEN 40 + (CHOOSE i \in 1..26 : LowerCase[i] = c)
  ELSE 0

RECURSIVE StrLeq(_, _)
StrLeq(a, b) ==
  IF a = <<>> THEN TRUE
  ELSE IF b = <<>> THEN FALSE
  ELSE IF CharRank(Head(a)) < CharRank(Head(b)) THEN TRUE
  ELSE IF CharRank(Head(a)) > CharRank(Head(b)) THEN FALSE
  ELSE StrLeq(Tail(a), Tail(b))

\* String(n) for a non-negative integer n (template-literal interpolation).
RECURSIVE NatToString(_)
NatToString(n) ==
  IF n < 10 THEN <<DigitChars[n + 1]>>
  ELSE NatToString(n \div 10) \o <<DigitChars[(n % 10) + 1]>>

RECURSIVE DigitsToNat(_)
DigitsToNat(s) ==
  IF s = <<>> THEN 0
  ELSE 10 * DigitsToNat(SubSeq(s, 1, Len(s) - 1)) + DigitVal(s[Len(s)])

\* Array.prototype.join
RECURSIVE Join(_, _)
Join(parts, sep) ==
  IF parts = <<>> THEN <<>>
  ELSE IF Len(parts) = 1 THEN parts[1]
  ELSE parts[1] \o sep \o Join(Tail(parts), sep)

-----------------------------------------------------------------------------
(* JavaScript values.                                                      *)

JSNum(n) == [type |-> "number", num |-> n, str |-> <<>>, bool |-> FALSE]

JSStr(s) == [type |-> "string", num |-> 0, str |-> s, bool |-> FALSE]

JSBool(b) == [type |-> "boolean", num |-> 0, str |-> <<>>, bool |-> b]

JSNull == [type |-> "null", num |-> 0, str |-> <<>>, bool |-> FALSE]

JSUndefined == [type |-> "undefined", num |-> 0, str |-> <<>>, bool |-> FALSE]

\* ToBoolean: the operand test of ||, ! and if
Truthy(v) ==
  CASE v.type = "number" -> v.num # 0
    [] v.type = "string" -> v.str # <<>>
    [] v.type = "boolean" -> v.bool
    [] OTHER -> FALSE

\* Object.keys / Object.values of an object given as entries in insertion order
ObjectKeys(obj) == [i \in 1..Len(obj) |-> obj[i].k]

ObjectValues(obj) == [i \in 1..Len(obj) |-> obj[i].v]

HasKey(obj, key) == \E i \in 1..Len(obj) : obj[i].k = key

\* obj[key]: the property's value, undefined when obj has no such property
GetProp(obj, key) ==
  IF HasKey(obj, key)
    THEN obj[CHOOSE i \in 1..Len(obj) : obj[i].k = key].v
    ELSE JSUndefined

-----------------------------------------------------------------------------
(* helpers/sql.js                                                          *)

\* ColFragment with the placeholder numbered from the zero-based index
ColFragment_ZeroBased(jsToSql, colName, idx) ==
  LET mapped == GetProp(jsToSql, colName)
      column == IF Truthy(mapped) THEN mapped.str ELSE colName
  IN  <<"\"">> \o column \o <<"\"", "=", "$">> \o NatToString(idx)

\* `"${jsToSql[colName] || colName}"=$${idx + 1}`
ColFragment(jsToSql, colName, idx) ==
  LET mapped == GetProp(jsToSql, colName)
      column == IF Truthy(mapped) THEN mapped.str ELSE colName
  IN  <<"\"">> \o column \o <<"\"", "=", "$">> \o NatToString(idx + 1)

\* sqlForPartialUpdate with the values in reverse key order
sqlForPartialUpdate_Reversed(dataToUpdate, jsToSql) ==
  LET keys == ObjectKeys(dataToUpdate)
      n == Len(keys)
      cols == [i \in 1..n |-> ColFragment(jsToSql, keys[i], i - 1)]
  IN  IF n = 0
        THEN [throw |-> "BadRequestError", message |-> <<"No data">>,
              setCols |-> <<>>, values |-> <<>>]
        ELSE [throw |-> "none", message |-> <<>>,
              setCols |-> Join(cols, <<",", " ">>),
              values |-> [i \in 1..n |-> dataToUpdate[n + 1 - i].v]]

sqlForPartialUpdate(dataToUpdate, jsToSql) ==
  LET keys == ObjectKeys(dataToUpdate)
      cols == [i \in 1..Len(keys) |-> ColFragment(jsToSql, keys[i], i - 1)]
  IN  IF Len(keys) = 0
        THEN [throw |-> "BadRequestError", message |-> <<"No data">>,
              setCols |-> <<>>, values |-> <<>>]
        ELSE [throw |-> "none", message |-> <<>>,
              setCols |-> Join(cols, <<",", " ">>),
              values |-> ObjectValues(dataToUpdate)]

-----------------------------------------------------------------------------
(* The relational store: tables jobs and companies, the jobs id sequence.  *)
(* A row holds the values the driver hands back to JavaScript: id number,  *)
(* title string, salary number or null, equity string (NUMERIC) or null,   *)
(* company_handle string.                                                  *)

K_id == <<"i","d">>

K_title == <<"t","i","t","l","e">>

K_salary == <<"s","a","l","a","r","y">>

K_equity == <<"e","q","u","i","t","y">>

K_company_handle == <<"c","o","m","p","a","n","y","_","h","a","n","d","l","e">>

JobColumns == {K_id, K_title, K_salary, K_equity, K_company_handle}

\* The value of column col (a quoted identifier of the statement) in row r
ColumnValue(r, col) ==
  CASE col = K_id -> r.id
    [] col = K_title -> r.title
    [] col = K_salary -> r.salary
    [] col = K_equity -> r.equity
    [] col = K_company_handle -> r.company_handle

\* Row r with column col set to v
SetColumn(r, col, v) ==
  CASE col = K_id -> [r EXCEPT !.id = v]
    [] col = K_title -> [r EXCEPT !.title = v]
    [] col = K_salary -> [r EXCEPT !.salary = v]
    [] col = K_equity -> [r EXCEPT !.equity = v]
    [] col = K_company_handle -> [r EXCEPT !.company_handle = v]

\* Column types and NOT NULL constraints of jobs
ColumnAccepts(col, v) ==
  CASE col = K_id -> v.type = "number"
    [] col = K_title -> v.type = "string"
    [] col = K_salary -> v.type \in {"number", "null"}
    [] col = K_equity -> v.type \in {"string", "null"}
    [] col = K_company_handle -> v.type = "string"
    [] OTHER -> FALSE

\* PRIMARY KEY (id) and REFERENCES companies
TableOk(tbl, comps) ==
  /\ \A r1, r2 \in tbl : r1.id = r2.id => r1 = r2
  /\ \A r \in tbl : \E c \in comps : c.handle = r.company_handle

\* First position >= from at which character c occurs in s, 0 if none
IndexFrom(s, c, from) ==
  IF \E i \in from..Len(s) : s[i] = c
    THEN CHOOSE i \in from..Len(s) :
           s[i] = c /\ \A j \in from..(i - 1) : s[j] # c
    ELSE 0

\* End of the run of digits that starts at position from (from - 1 if none)
DigitsEnd(s, from) ==
  CHOOSE e \in (from - 1)..Len(s) :
    /\ \A j \in from..e : IsDigit(s[j])
    /\ (e = Len(s) \/ ~IsDigit(s[e + 1]))

\* The store's reading of a SET list: "col"=$n, "col"=$n, ...
\* gives the assignments <<[col, idx]>>, or ok = FALSE on a syntax error
RECURSIVE ParseSetCols(_)
ParseSetCols(s) ==
  LET q == IndexFrom(s, "\"", 2)
      e == DigitsEnd(s, q + 3)
      wellFormed == /\ Len(s) >= 5
                    /\ s[1] = "\""
                    /\ q > 2
                    /\ Len(s) >= q + 3
                    /\ s[q + 1] = "="
                    /\ s[q + 2] = "$"
                    /\ e >= q + 3
      item == [col |-> SubSeq(s, 2, q - 1),
               idx |-> DigitsToNat(SubSeq(s, q + 3, e))]
  IN  IF ~wellFormed THEN [ok |-> FALSE, items |-> <<>>]
      ELSE IF e = Len(s) THEN [ok |-> TRUE, items |-> <<item>>]
      ELSE IF Len(s) >= e + 3 /\ s[e + 1] = "," /\ s[e + 2] = " "
        THEN LET rest == ParseSetCols(SubSeq(s, e + 3, Len(s)))
             IN  [ok |-> rest.ok, items |-> <<item>> \o rest.items]
      ELSE [ok |-> FALSE, items |-> <<>>]

\* A positional placeholder $n
ParsePlaceholder(s) ==
  IF Len(s) >= 2 /\ s[1] = "$" /\ DigitsEnd(s, 2) = Len(s)
    THEN DigitsToNat(SubSeq(s, 2, Len(s)))
    ELSE 0

\* The row after the assignments items[1..n] are applied with the bound params
RECURSIVE ApplyAssignments(_, _, _)
ApplyAssignments(r, items, params) ==
  IF items = <<>> THEN r
  ELSE ApplyAssignments(SetColumn(r, items[1].col, params[items[1].idx]),
                        Tail(items), params)

\* RETURNING id, title, salary, equity, company_handle AS "companyHandle"
Returning(r) ==
  [id |-> r.id, title |-> r.title, salary |-> r.salary, equity |-> r.equity,
   companyHandle |-> r.company_handle]

\* UPDATE jobs SET <setCols> WHERE id = <idVarIdx> RETURNING ...
\* error: the statement is rejected (syntax, unknown column, unbound
\* placeholder, type or constraint violation) and the table is unchanged
DbUpdate(tbl, comps, setCols, idVarIdx, params) ==
  LET parsed == ParseSetCols(setCols)
      k == ParsePlaceholder(idVarIdx)
      valid == /\ parsed.ok
               /\ k \in 1..Len(params)
               /\ params[k].type = "number"
               /\ \A i \in 1..Len(parsed.items) :
                    /\ parsed.items[i].col \in JobColumns
                    /\ parsed.items[i].idx \in 1..Len(params)
                    /\ ColumnAccepts(parsed.items[i].col,
                                     params[parsed.items[i].idx])
                    /\ \A j \in 1..Len(parsed.items) :
                         parsed.items[j].col = parsed.items[i].col => j = i
      hit == IF valid THEN {r \in tbl : r.id = params[k]} ELSE {}
      new == {ApplyAssignments(r, parsed.items, params) : r \in hit}
      tbl2 == (tbl \ hit) \cup new
  IN  IF ~valid \/ ~TableOk(tbl2, comps) \/ Cardinality(tbl2) # Cardinality(tbl)
        THEN [error |-> TRUE, rows |-> {}, table |-> tbl]
        ELSE [error |-> FALSE, rows |-> {Returning(r) : r \in new},
              table |-> tbl2]

\* INSERT INTO jobs (title, salary, equity, company_handle) VALUES ($1..$4)
\* RETURNING ...; the id is the sequence's next value
DbInsert(tbl, comps, seqVal, params) ==
  LET r == [id |-> JSNum(seqVal), title |-> params[1], salary |-> params[2],
            equity |-> params[3], company_handle |-> params[4]]
      valid == /\ ColumnAccepts(K_title, params[1])
               /\ ColumnAccepts(K_salary, params[2])
               /\ ColumnAccepts(K_equity, params[3])
               /\ ColumnAccepts(K_company_handle, params[4])
               /\ \A x \in tbl : x.id # r.id
               /\ TableOk(tbl \cup {r}, comps)
  IN  IF valid
        THEN [error |-> FALSE, rows |-> {Returning(r)}, table |-> tbl \cup {r}]
        ELSE [error |-> TRUE, rows |-> {}, table |-> tbl]

\* DbDelete without its WHERE clause
DbDelete_NoWhere(tbl, params) ==
  LET hit == {r \in tbl : r.id = params[1]}
  IN  [error |-> FALSE, rows |-> {[id |-> r.id] : r \in hit},
       table |-> IF hit = {} THEN tbl ELSE {}]

\* DELETE FROM jobs WHERE id = $1 RETURNING id
DbDelete(tbl, params) ==
  LET hit == {r \in tbl : r.id = params[1]}
  IN  [error |-> FALSE, rows |-> {[id |-> r.id] : r \in hit},
       table |-> tbl \ hit]

\* SELECT id, title, salary, equity, company_handle AS "companyHandle"
\* FROM jobs WHERE id = $1
DbSelectJob(tbl, params) == {Returning(r) : r \in {x \in tbl : x.id = params[1]}}

\* SELECT handle, name, description, num_employees AS "numEmployees",
\* logo_url AS "logoUrl" FROM companies WHERE handle = $1
DbSelectCompany(comps, params) ==
  {[handle |-> c.handle, name |-> c.name, description |-> c.description,
    numEmployees |-> c.num_employees, logoUrl |-> c.logo_url] :
     c \in {x \in comps : x.handle = params[1]}}

\* result.rows[0] of a result with at most one row; JSUndefined when empty
FirstRow(rows) == IF rows = {} THEN JSUndefined ELSE CHOOSE r \in rows : TRUE

-----------------------------------------------------------------------------
(* models/job.js: each method gives the outcome ("ok" or the error thrown), *)
(* the error message, the value returned, the statements it issued to the  *)
(* store in order, and the jobs table afterwards.                          *)

\* Job.create(data)
JobCreate(tbl, comps, seqVal, data) ==
  LET result == DbInsert(tbl, comps, seqVal,
                         <<data.title, data.salary, data.equity,
                           data.companyHandle>>)
  IN  IF result.error
        THEN [outcome |-> "dbError", message |-> <<>>, ret |-> JSUndefined,
              stmts |-> <<"INSERT jobs">>, table |-> result.table]
        ELSE [outcome |-> "ok", message |-> <<>>, ret |-> FirstRow(result.rows),
              stmts |-> <<"INSERT jobs">>, table |-> result.table]

\* JobUpdate without the check of result.rows[0]
JobUpdate_NoRowCheck(tbl, comps, id, data) ==
  LET sql == sqlForPartialUpdate(data, <<>>)
      idVarIdx == <<"$">> \o NatToString(Len(sql.values) + 1)
      result == DbUpdate(tbl, comps, sql.setCols, idVarIdx,
                         sql.values \o <<id>>)
  IN  IF sql.throw # "none"
        THEN [outcome |-> sql.throw, message |-> sql.message,
              ret |-> JSUndefined, stmts |-> <<>>, table |-> tbl]
      ELSE IF result.error
        THEN [outcome |-> "dbError", message |-> <<>>, ret |-> JSUndefined,
              stmts |-> <<"UPDATE jobs">>, table |-> result.table]
      ELSE [outcome |-> "ok", message |-> <<>>, ret |-> FirstRow(result.rows),
            stmts |-> <<"UPDATE jobs">>, table |-> result.table]

\* Job.update(id, data)
JobUpdate(tbl, comps, id, data) ==
  LET sql == sqlForPartialUpdate(data, <<>>)
      idVarIdx == <<"$">> \o NatToString(Len(sql.values) + 1)
      result == DbUpdate(tbl, comps, sql.setCols, idVarIdx,
                         sql.values \o <<id>>)
  IN  IF sql.throw # "none"
        THEN [outcome |-> sql.throw, message |-> sql.message,
              ret |-> JSUndefined, stmts |-> <<>>, table |-> tbl]
      ELSE IF result.error
        THEN [outcome |-> "dbError", message |-> <<>>, ret |-> JSUndefined,
              stmts |-> <<"UPDATE jobs">>, table |-> result.table]
      ELSE IF result.rows = {}
        THEN [outcome |-> "NotFoundError",
              message |-> <<"No job with id: ">> \o NatToString(id.num),
              ret |-> JSUndefined, stmts |-> <<"UPDATE jobs">>,
              table |-> result.table]
      ELSE [outcome |-> "ok", message |-> <<>>, ret |-> FirstRow(result.rows),
            stmts |-> <<"UPDATE jobs">>, table |-> result.table]

\* Job.remove(id)
JobRemove(tbl, id) ==
  LET result == DbDelete(tbl, <<id>>)
  IN  IF result.rows = {}
        THEN [outcome |-> "NotFoundError",
              message |-> <<"No job with id: ">> \o NatToString(id.num),
              ret |-> JSUndefined, stmts |-> <<"DELETE jobs">>,
              table |-> result.table]
        ELSE [outcome |-> "ok", message |-> <<>>, ret |-> JSUndefined,
              stmts |-> <<"DELETE jobs">>, table |-> result.table]

\* JobGet without `delete job.companyHandle`
JobGet_KeepsHandle(tbl, comps, id) ==
  LET jobRes == DbSelectJob(tbl, <<id>>)
      job == FirstRow(jobRes)
      companiesRes == DbSelectCompany(comps, <<job.companyHandle>>)
  IN  IF jobRes = {}
        THEN [outcome |-> "NotFoundError",
              message |-> <<"No job with id: ">> \o NatToString(id.num),
              ret |-> JSUndefined, stmts |-> <<"SELECT jobs">>, table |-> tbl]
        ELSE [outcome |-> "ok", message |-> <<>>,
              ret |-> [id |-> job.id, title |-> job.title,
                       salary |-> job.salary, equity |-> job.equity,
                       companyHandle |-> job.companyHandle,
                       company |-> FirstRow(companiesRes)],
              stmts |-> <<"SELECT jobs", "SELECT companies">>, table |-> tbl]

\* Job.get(id)
JobGet(tbl, comps, id) ==
  LET jobRes == DbSelectJob(tbl, <<id>>)
      job == FirstRow(jobRes)
      companiesRes == DbSelectCompany(comps, <<job.companyHandle>>)
  IN  IF jobRes = {}
        THEN [outcome |-> "NotFoundError",
              message |-> <<"No job with id: ">> \o NatToString(id.num),
              ret |-> JSUndefined, stmts |-> <<"SELECT jobs">>, table |-> tbl]
        ELSE [outcome |-> "ok", message |-> <<>>,
              ret |-> [id |-> job.id, title |-> job.title,
                       salary |-> job.salary, equity |-> job.equity,
                       company |-> FirstRow(companiesRes)],
              stmts |-> <<"SELECT jobs", "SELECT companies">>, table |-> tbl]

-----------------------------------------------------------------------------
(* Inputs.                                                                 *)

C1Row == [handle |-> JSStr(<<"c","1">>), name |-> JSStr(<<"C","1">>),
          description |-> JSStr(<<"D","e","s","c","1">>),
          num_employees |-> JSNum(1), logo_url |-> JSStr(<<"c","1","i","m","g">>)]

C2Row == [handle |-> JSStr(<<"c","2">>), name |-> JSStr(<<"C","2">>),
          description |-> JSStr(<<"D","e","s","c","2">>),
          num_employees |-> JSNum(2), logo_url |-> JSStr(<<"c","2","i","m","g">>)]

Handles == {C1Row.handle, C2Row.handle}

T_job1 == JSStr(<<"j","o","b","1">>)

T_Updated == JSStr(<<"U","p","d","a","t","e","d">>)

E_01 == JSStr(<<"0",".","1">>)

\* data of Job.create
NewJobs == [title : {T_job1}, salary : {JSNum(100)}, equity : {E_01},
            companyHandle : Handles]

\* ids passed to get, update and remove; 0 is never assigned by the sequence
Ids == {JSNum(i) : i \in 0..MaxId}

\* entries of the data of Job.update: the fields its documentation names
\* ("Data can include: { title, salary, equity }")
UpdateEntries ==
  {[k |-> K_title, v |-> T_Updated],
   [k |-> K_salary, v |-> JSNull], [k |-> K_salary, v |-> JSNum(100)],
   [k |-> K_equity, v |-> JSNull]}

\* entries of a data mapping that may also name the id column; Job.update
\* does not inspect the keys of data
AnyEntries == UpdateEntries \cup {[k |-> K_id, v |-> JSNum(i)] : i \in 1..MaxId}

\* objects of at most n entries drawn from a set, keys distinct
Objects(entries, n) ==
  {o \in UNION {[1..m -> entries] : m \in 0..n} :
     \A i, j \in 1..Len(o) : o[i].k = o[j].k => i = j}

UpdateData == Objects(UpdateEntries, MaxKeys)

AnyData == Objects(AnyEntries, MaxKeys)

-----------------------------------------------------------------------------
(* The job store under create, update, remove and get.                     *)

Idle == [op |-> "none"]

Init ==
  /\ jobs = {}
  /\ companies = {C1Row, C2Row}
  /\ nextId = 1
  /\ call = Idle

\* A method is entered only when the previous call has returned.
Create(data) ==
  /\ call = Idle
  /\ nextId <= MaxId
  /\ \E r \in {JobCreate(jobs, companies, nextId, data)} :
       /\ jobs' = r.table
       /\ call' = [op |-> "create", data |-> data, outcome |-> r.outcome,
                   message |-> r.message, ret |-> r.ret, stmts |-> r.stmts]
  /\ nextId' = nextId + 1
  /\ UNCHANGED companies

Update(id, data) ==
  /\ call = Idle
  /\ \E r \in {JobUpdate(jobs, companies, id, data)} :
       /\ jobs' = r.table
       /\ call' = [op |-> "update", id |-> id, data |-> data,
                   outcome |-> r.outcome, message |-> r.message,
                   ret |-> r.ret, stmts |-> r.stmts]
  /\ UNCHANGED <<companies, nextId>>

Remove(id) ==
  /\ call = Idle
  /\ \E r \in {JobRemove(jobs, id)} :
       /\ jobs' = r.table
       /\ call' = [op |-> "remove", id |-> id, outcome |-> r.outcome,
                   message |-> r.message, ret |-> r.ret, stmts |-> r.stmts]
  /\ UNCHANGED <<companies, nextId>>

Get(id) ==
  /\ call = Idle
  /\ \E r \in {JobGet(jobs, companies, id)} :
       /\ jobs' = r.table
       /\ call' = [op |-> "get", id |-> id, outcome |-> r.outcome,
                   message |-> r.message, ret |-> r.ret, stmts |-> r.stmts]
  /\ UNCHANGED <<companies, nextId>>

\* The call's promise settles: the caller has the result or the error.
Return ==
  /\ call # Idle
  /\ call' = Idle
  /\ UNCHANGED <<jobs, companies, nextId>>

DoCreate == \E data \in NewJobs : Create(data)

DoUpdate == \E id \in Ids : \E data \in UpdateData : Update(id, data)

DoRemove == \E id \in Ids : Remove(id)

DoGet == \E id \in Ids : Get(id)

Next == DoCreate \/ DoUpdate \/ DoRemove \/ DoGet \/ Return

Spec == Init /\ [][Next]_vars

\* The same store when update is handed any data mapping.
DoUpdateAny == \E id \in Ids : \E data \in AnyData : Update(id, data)

NextAny == DoCreate \/ DoUpdateAny \/ DoRemove \/ DoGet \/ Return

SpecAny == Init /\ [][NextAny]_vars

-----------------------------------------------------------------------------
(* Job.findFiltered                                                        *)

K_minSalary == <<"m","i","n","S","a","l","a","r","y">>

K_hasEquity == <<"h","a","s","E","q","u","i","t","y">>

K_name == <<"n","a","m","e">>

RECURSIVE TrimSpaces(_)
TrimSpaces(s) ==
  IF s = <<>> THEN s
  ELSE IF Head(s) = " " THEN TrimSpaces(Tail(s))
  ELSE IF s[Len(s)] = " " THEN TrimSpaces(SubSeq(s, 1, Len(s) - 1))
  ELSE s

\* Number(v), as [nan, num].  Of string literals the decimal digit strings
\* are read (after trimming white space; the empty string is 0); every other
\* string over the model's characters is NaN.
ToNumber(v) ==
  CASE v.type = "number" -> [nan |-> FALSE, num |-> v.num]
    [] v.type = "boolean" -> [nan |-> FALSE, num |-> IF v.bool THEN 1 ELSE 0]
    [] v.type = "null" -> [nan |-> FALSE, num |-> 0]
    [] v.type = "string" ->
         LET t == TrimSpaces(v.str)
         IN  IF \A i \in 1..Len(t) : IsDigit(t[i])
               THEN [nan |-> FALSE, num |-> DigitsToNat(t)]
               ELSE [nan |-> TRUE, num |-> 0]
    [] OTHER -> [nan |-> TRUE, num |-> 0]

NoClause == [kind |-> "none", num |-> 0, pat |-> <<>>]

\* case 'title': `LOWER(title) LIKE '%${filterBy[condition].toLowerCase()}%'`
\* (evaluated for condition = 'hasEquity' too, when that case falls through)
TitleCase(v) ==
  IF v.type = "string"
    THEN [throw |-> "none", message |-> <<>>,
          clause |-> [kind |-> "LOWER(title) LIKE", num |-> 0,
                      pat |-> <<"%">> \o ToLowerCase(v.str) \o <<"%">>]]
    ELSE [throw |-> "TypeError", message |-> <<"toLowerCase">>,
          clause |-> NoClause]

\* The body of keys.map(condition => switch (condition) ...)
FilterClause(filterBy, condition) ==
  LET v == GetProp(filterBy, condition)
      minSalary == ToNumber(v)
  IN  CASE condition = K_minSalary ->
             IF minSalary.nan
               THEN [throw |-> "BadRequestError",
                     message |-> <<"minSalary must be a number.">>,
                     clause |-> NoClause]
               ELSE [throw |-> "none", message |-> <<>>,
                     clause |-> [kind |-> "salary >=", num |-> minSalary.num,
                                 pat |-> <<>>]]
        [] condition = K_hasEquity ->
             IF v = JSBool(TRUE)
               THEN [throw |-> "none", message |-> <<>>,
                     clause |-> [kind |-> "equity > 0", num |-> 0, pat |-> <<>>]]
               ELSE TitleCase(v)
        [] condition = K_title -> TitleCase(v)
        [] OTHER -> [throw |-> "BadRequestError",
                     message |-> <<"Invalid filter key: ">> \o condition,
                     clause |-> NoClause]

\* SQL LIKE: % matches any run of characters, _ any one character,
\* backslash takes the next pattern character literally
RECURSIVE LikeMatch(_, _)
LikeMatch(str, pat) ==
  IF pat = <<>> THEN str = <<>>
  ELSE IF Head(pat) = "%"
    THEN LikeMatch(str, Tail(pat))
           \/ (str # <<>> /\ LikeMatch(Tail(str), pat))
  ELSE IF Head(pat) = "_"
    THEN str # <<>> /\ LikeMatch(Tail(str), Tail(pat))
  ELSE IF Head(pat) = "\\" /\ Len(pat) >= 2
    THEN str # <<>> /\ Head(str) = pat[2]
           /\ LikeMatch(Tail(str), Tail(Tail(pat)))
  ELSE str # <<>> /\ Head(str) = Head(pat) /\ LikeMatch(Tail(str), Tail(pat))

\* A NUMERIC column value, as the driver prints it, is greater than zero
NumericGtZero(s) == \E i \in 1..Len(s) : IsDigit(s[i]) /\ s[i] # "0"

\* The row satisfies the clause; a comparison with NULL is not true
ClauseHolds(r, clause) ==
  CASE clause.kind = "salary >=" ->
         r.salary.type = "number" /\ r.salary.num >= clause.num
    [] clause.kind = "equity > 0" ->
         r.equity.type = "string" /\ NumericGtZero(r.equity.str)
    [] clause.kind = "LOWER(title) LIKE" ->
         LikeMatch(ToLowerCase(r.title.str), clause.pat)
    [] OTHER -> FALSE

\* The sequences a result set can come back as under ORDER BY title
OrderByTitle(rows) ==
  {s \in [1..Cardinality(rows) -> rows] :
     /\ \A i, j \in 1..Cardinality(rows) : s[i] = s[j] => i = j
     /\ \A i, j \in 1..Cardinality(rows) :
          i < j => StrLeq(s[i].title.str, s[j].title.str)}

\* SELECT id, title, salary, equity, company_handle AS "companyHandle"
\* FROM jobs WHERE <clauses joined by AND> ORDER BY title
DbSelectFiltered(tbl, clauses) ==
  OrderByTitle({Returning(r) : r \in
     {x \in tbl : \A i \in 1..Len(clauses) : ClauseHolds(x, clauses[i])}})

\* Job.findFiltered(filterBy); rows is the set of row sequences the query
\* may return.  jobsRes.rows is always an array, so the final
\* `if (!jobsRes.rows)` never throws.
JobFindFiltered(tbl, filterBy) ==
  LET keys == ObjectKeys(filterBy)
      whereQuery == [i \in 1..Len(keys) |-> FilterClause(filterBy, keys[i])]
      thrown == {i \in 1..Len(keys) : whereQuery[i].throw # "none"}
      first == CHOOSE i \in thrown : \A j \in thrown : i <= j
  IN  IF Len(keys) = 0
        THEN [outcome |-> "BadRequestError",
              message |-> <<"No data to filter by">>,
              rows |-> {<<>>}, stmts |-> <<>>]
      ELSE IF thrown # {}
        THEN [outcome |-> whereQuery[first].throw,
              message |-> whereQuery[first].message,
              rows |-> {<<>>}, stmts |-> <<>>]
      ELSE [outcome |-> "ok", message |-> <<>>,
            rows |-> DbSelectFiltered(tbl,
                       [i \in 1..Len(keys) |-> whereQuery[i].clause]),
            stmts |-> <<"SELECT jobs WHERE">>]

T_Job2 == JSStr(<<"J","o","b","2">>)

E_0 == JSStr(<<"0">>)

\* data of Job.create for the filter runs
FilterJobs == [title : {T_job1, T_Job2}, salary : {JSNull, JSNum(100), JSNum(300)},
               equity : {JSNull, E_0, E_01}, companyHandle : {C1Row.handle}]

\* entries of filterBy
FilterEntries ==
  {[k |-> K_minSalary, v |-> v] :
     v \in {JSNum(200), JSStr(<<"2","0","0">>), JSStr(<<"x">>), JSStr(<<>>),
            JSBool(TRUE), JSNull}}
    \cup {[k |-> K_hasEquity, v |-> v] :
            v \in {JSBool(TRUE), JSBool(FALSE), JSStr(<<"t","r","u","e">>)}}
    \cup {[k |-> K_title, v |-> JSStr(t)] :
            t \in {<<"j","o","b">>, <<"B","2">>, <<"_">>}}
    \cup {[k |-> K_name, v |-> JSStr(<<"x">>)]}

Filters == Objects(FilterEntries, MaxKeys)

FindFiltered(filterBy) ==
  /\ call = Idle
  /\ \E r \in {JobFindFiltered(jobs, filterBy)} :
       \E rows \in r.rows :
         call' = [op |-> "findFiltered", filterBy |-> filterBy,
                  outcome |-> r.outcome, message |-> r.message,
                  ret |-> rows, stmts |-> r.stmts]
  /\ UNCHANGED <<jobs, companies, nextId>>

DoCreateF == \E data \in FilterJobs : Create(data)

DoFindFiltered == \E filterBy \in Filters : FindFiltered(filterBy)

NextFilter == DoCreateF \/ DoFindFiltered \/ Return

FilterSpec == Init /\ [][NextFilter]_vars

-----------------------------------------------------------------------------
(* sqlForPartialUpdate on its own: the arguments are drawn, then applied.  *)

K_firstName == <<"f","i","r","s","t","N","a","m","e">>

K_age == <<"a","g","e">>

SqlKeys == {K_firstName, K_age, K_title}

SqlValues == {JSStr(<<"a">>), JSNum(32), JSNull}

SqlData == Objects({[k |-> k, v |-> v] : k \in SqlKeys, v \in SqlValues}, MaxKeys)

\* jsToSql maps field names to column names
SqlMaps ==
  Objects({[k |-> K_firstName,
            v |-> JSStr(<<"f","i","r","s","t","_","n","a","m","e">>)],
           [k |-> K_age, v |-> JSStr(<<"y","r","s">>)]}, MaxKeys)

InitSql ==
  /\ jobs = {}
  /\ companies = {C1Row, C2Row}
  /\ nextId = 1
  /\ call \in {[op |-> "args", dataToUpdate |-> d, jsToSql |-> m] :
                 d \in SqlData, m \in SqlMaps}

SqlApply ==
  /\ call.op = "args"
  /\ call' = [op |-> "sqlForPartialUpdate",
              dataToUpdate |-> call.dataToUpdate, jsToSql |-> call.jsToSql,
              ret |-> sqlForPartialUpdate(call.dataToUpdate, call.jsToSql)]
  /\ UNCHANGED <<jobs, companies, nextId>>

NextSql == SqlApply

SqlSpec == InitSql /\ [][NextSql]_vars

-----------------------------------------------------------------------------
(* Properties.                                                             *)

HasId(tbl, id) == \E r \in tbl : r.id = id

RowOf(tbl, id) == CHOOSE r \in tbl : r.id = id

IdsOf(tbl) == {r.id : r \in tbl}

DocumentedFields == {K_title, K_salary, K_equity}

\* C1: Job.update(id, data) on an existing job, with non-empty data over
\* title/salary/equity, succeeds; the job's row then has each supplied field
\* at the supplied value (null included) and each omitted field at its old
\* value, the same id and company_handle; every other row is unchanged; the
\* value returned is the row as stored.
C1_PartialUpdate ==
  [][(/\ call'.op = "update"
      /\ Len(call'.data) > 0
      /\ \A i \in 1..Len(call'.data) : call'.data[i].k \in DocumentedFields
      /\ HasId(jobs, call'.id))
     => LET old == RowOf(jobs, call'.id)
        IN  /\ call'.outcome = "ok"
            /\ HasId(jobs', call'.id)
            /\ LET new == RowOf(jobs', call'.id)
               IN  /\ \A col \in DocumentedFields :
                        ColumnValue(new, col) =
                          IF HasKey(call'.data, col)
                            THEN GetProp(call'.data, col)
                            ELSE ColumnValue(old, col)
                   /\ new.id = old.id
                   /\ new.company_handle = old.company_handle
                   /\ jobs' \ {new} = jobs \ {old}
                   /\ call'.ret = [id |-> new.id, title |-> new.title,
                                   salary |-> new.salary,
                                   equity |-> new.equity,
                                   companyHandle |-> new.company_handle]]_vars

\* C1 witness: an update that set salary to an explicit null and the title,
\* left equity out, and ran while another job was stored.
C1_Witness ==
  /\ call.op = "update"
  /\ call.outcome = "ok"
  /\ ObjectKeys(call.data) = <<K_title, K_salary>>
  /\ GetProp(call.data, K_salary) = JSNull
  /\ call.ret.salary = JSNull
  /\ call.ret.title = T_Updated
  /\ call.ret.equity = E_01
  /\ Cardinality(jobs) = 2

\* C2: no Job.update call, whatever data mapping it is passed, changes the
\* id of any job: the ids stored after an update are the ids stored before.
C2_IdImmutable ==
  [][call'.op = "update" => IdsOf(jobs') = IdsOf(jobs)]_vars

\* C3: Job.update(id, {}) fails with BadRequestError "No data" for every id
\* before any statement is issued, and Job.update(id, data) with non-empty
\* data and an id that matches no job fails with NotFoundError; the stored
\* jobs are unchanged in both cases.
C3_UpdateErrors ==
  [][call'.op = "update"
     => /\ (Len(call'.data) = 0
              => /\ call'.outcome = "BadRequestError"
                 /\ call'.message = <<"No data">>
                 /\ call'.stmts = <<>>
                 /\ jobs' = jobs)
        /\ (Len(call'.data) > 0 /\ ~HasId(jobs, call'.id)
              => /\ call'.outcome = "NotFoundError"
                 /\ jobs' = jobs)]_vars

\* C3 witness: an update with data that found no job while jobs were stored.
C3_Witness ==
  /\ call.op = "update"
  /\ call.outcome = "NotFoundError"
  /\ Len(call.data) = 2
  /\ jobs # {}

\* C4: Job.remove(id) on an existing job deletes exactly that row and
\* returns nothing, and Job.get(id) then fails with not-found; on an id that
\* matches no job it fails with NotFoundError and the jobs are unchanged.
\* In every state a lookup of an id that no stored row has fails with
\* not-found, so the lookup keeps failing until a row with that id exists
\* again.
C4_Remove ==
  [][/\ (call'.op = "remove"
           => IF HasId(jobs, call'.id)
                THEN /\ call'.outcome = "ok"
                     /\ call'.ret = JSUndefined
                     /\ jobs' = jobs \ {RowOf(jobs, call'.id)}
                     /\ ~HasId(jobs', call'.id)
                     /\ JobGet(jobs', companies', call'.id).outcome
                          = "NotFoundError"
                ELSE /\ call'.outcome = "NotFoundError"
                     /\ jobs' = jobs)
     /\ \A id \in Ids :
          ~HasId(jobs', id)
            => JobGet(jobs', companies', id).outcome = "NotFoundError"]_vars

\* C4 witness: a remove that deleted a job and left another one stored.
C4_Witness ==
  /\ call.op = "remove"
  /\ call.outcome = "ok"
  /\ ~HasId(jobs, call.id)
  /\ Cardinality(jobs) = 1

IsNumeric(v) ==
  \/ v.type = "number"
  \/ (v.type = "string" /\ v.str # <<>>
        /\ \A i \in 1..Len(v.str) : IsDigit(v.str[i]))

\* C6: Job.findFiltered({minSalary: v}) fails with BadRequestError
\* "minSalary must be a number." for every v that is neither a number nor a
\* numeric string (true, null and the empty string included).
C6_MinSalaryNotNumeric ==
  (/\ call.op = "findFiltered"
   /\ ObjectKeys(call.filterBy) = <<K_minSalary>>
   /\ ~IsNumeric(GetProp(call.filterBy, K_minSalary)))
  => /\ call.outcome = "BadRequestError"
     /\ call.message = <<"minSalary must be a number.">>

\* a occurs in b as a contiguous substring
IsSubstring(a, b) ==
  \E i \in 1..(Len(b) - Len(a) + 1) : SubSeq(b, i, i + Len(a) - 1) = a

\* The rows the claims expect of a filter: salary >= minSalary, equity > 0
\* when hasEquity is truthy, and the lower-cased title containing the
\* lower-cased title value; every constraint at once.
Expected(tbl, filterBy) ==
  {Returning(r) : r \in
     {x \in tbl :
        /\ HasKey(filterBy, K_minSalary)
             => /\ x.salary.type = "number"
                /\ x.salary.num >= ToNumber(GetProp(filterBy, K_minSalary)).num
        /\ (HasKey(filterBy, K_hasEquity)
              /\ Truthy(GetProp(filterBy, K_hasEquity)))
             => /\ x.equity.type = "string"
                /\ NumericGtZero(x.equity.str)
        /\ HasKey(filterBy, K_title)
             => IsSubstring(ToLowerCase(GetProp(filterBy, K_title).str),
                            ToLowerCase(x.title.str))}}

RowsOf(seq) == {seq[i] : i \in 1..Len(seq)}

\* C7: hasEquity contributes equity > 0 when truthy and nothing when falsy:
\* a filter with hasEquity, alone or beside a numeric minSalary, returns
\* without error the jobs that satisfy the other key and, when hasEquity is
\* truthy, have equity > 0.
C7_HasEquity ==
  (/\ call.op = "findFiltered"
   /\ HasKey(call.filterBy, K_hasEquity)
   /\ \A i \in 1..Len(call.filterBy) :
        \/ call.filterBy[i].k = K_hasEquity
        \/ (call.filterBy[i].k = K_minSalary
              /\ call.filterBy[i].v.type = "number"))
  => /\ call.outcome = "ok"
     /\ RowsOf(call.ret) = Expected(jobs, call.filterBy)

\* C8: for a filter whose keys are recognized and whose values are valid (a
\* numeric minSalary, hasEquity true, a string title) findFiltered returns
\* exactly the jobs that satisfy every constraint, ordered by title, each
\* with companyHandle and no company object.
C8_FilteredRows ==
  (/\ call.op = "findFiltered"
   /\ Len(call.filterBy) > 0
   /\ \A i \in 1..Len(call.filterBy) :
        \/ (call.filterBy[i].k = K_minSalary /\ IsNumeric(call.filterBy[i].v))
        \/ (call.filterBy[i].k = K_hasEquity
              /\ call.filterBy[i].v = JSBool(TRUE))
        \/ (call.filterBy[i].k = K_title
              /\ call.filterBy[i].v.type = "string"))
  => /\ call.outcome = "ok"
     /\ RowsOf(call.ret) = Expected(jobs, call.filterBy)
     /\ Len(call.ret) = Cardinality(Expected(jobs, call.filterBy))
     /\ \A i, j \in 1..Len(call.ret) :
          i < j => StrLeq(call.ret[i].title.str, call.ret[j].title.str)
     /\ \A i \in 1..Len(call.ret) :
          DOMAIN call.ret[i]
            = {"id", "title", "salary", "equity", "companyHandle"}

\* C10: findFiltered fails with BadRequestError and issues no query when the
\* filter is empty (message "No data to filter by") and when it holds any
\* key other than minSalary, hasEquity and title, whatever the other keys
\* and their order.
C10_InvalidFilter ==
  call.op = "findFiltered"
  => /\ (Len(call.filterBy) = 0
           => /\ call.outcome = "BadRequestError"
              /\ call.message = <<"No data to filter by">>
              /\ call.stmts = <<>>)
     /\ (\A i \in 1..Len(call.filterBy) :
           call.filterBy[i].k \notin {K_minSalary, K_hasEquity, K_title}
             => /\ call.outcome = "BadRequestError"
                /\ call.stmts = <<>>)

\* The column the claim names for a key: jsToSql's name when it maps the key
ExpectedColumn(jsToSql, key) ==
  IF HasKey(jsToSql, key) THEN GetProp(jsToSql, key).str ELSE key

\* C9: for n >= 1 fields, setCols is the n fragments "<column>"=$i joined by
\* ", ", in key order, with <column> the name jsToSql gives the key or else
\* the key; values are the n values in the same order, unchanged; read back
\* as a SET list, the i-th assignment names that column and placeholder i,
\* which binds the i-th field's value.
C9_SetColsAndValues ==
  (call.op = "sqlForPartialUpdate" /\ Len(call.dataToUpdate) >= 1)
  => LET data == call.dataToUpdate
         n == Len(data)
         frags == [i \in 1..n |->
                     <<"\"">> \o ExpectedColumn(call.jsToSql, data[i].k)
                       \o <<"\"", "=", "$">> \o NatToString(i)]
         parsed == ParseSetCols(call.ret.setCols)
     IN  /\ call.ret.throw = "none"
         /\ call.ret.setCols = Join(frags, <<",", " ">>)
         /\ call.ret.values = [i \in 1..n |-> data[i].v]
         /\ parsed.ok
         /\ Len(parsed.items) = n
         /\ \A i \in 1..n :
              /\ parsed.items[i].col = ExpectedColumn(call.jsToSql, data[i].k)
              /\ parsed.items[i].idx = i
              /\ call.ret.values[parsed.items[i].idx] = data[i].v

\* C9 witness: two fields, the first renamed by jsToSql, the second not,
\* with values of different types.
C9_Witness ==
  /\ call.op = "sqlForPartialUpdate"
  /\ Len(call.dataToUpdate) = 2
  /\ HasKey(call.jsToSql, call.dataToUpdate[1].k)
  /\ ~HasKey(call.jsToSql, call.dataToUpdate[2].k)
  /\ call.dataToUpdate[1].v.type # call.dataToUpdate[2].v.type
  /\ call.ret.throw = "none"

====
